---- MODULE Spec2Model ----
(***************************************************************************)
(* Timer state machine and audio-trigger scheduler of dota2-timer          *)
(* (src/src/main.rs): the `update` function, one action per Message, the   *)
(* tick subscription, the file system the configuration is read from and   *)
(* the real-time clock read by Instant::now() / Instant::elapsed().        *)
(*                                                                         *)
(* Durations and Instants are integers counted in units of 1/TicksPerSec   *)
(* of a second.                                                            *)
(***************************************************************************)
EXTENDS Integers, FiniteSets, Sequences, TLC

\* ------------------------------------------------------------------ bounds

\* Resolution of the modelled clock: units per second.
TicksPerSec == 2

\* Real time is sampled in windows of WindowLen units; see SampleTimes.
WindowLen == 4

\* Number of sampling windows after the first one.
MaxCycles == 2

\* A Tick message is handled at most MaxLag units after it was stamped.
MaxLag == 1

\* The second run of the program reads a clock ClockShift units ahead.
ClockShift == 7

\* ---------------------------------------------------------- program values

\* Duration::from_secs(n)
from_secs(n) == n * TicksPerSec

\* Duration::as_secs(d): whole seconds, rounding down
as_secs(d) == d \div TicksPerSec

\* Duration::saturating_sub
saturating_sub(a, b) == IF a >= b THEN a - b ELSE 0

\* Instant::duration_since(earlier): saturates to zero when earlier is later
duration_since(later, earlier) == IF later >= earlier THEN later - earlier ELSE 0

\* Duration::from_secs(60) of the Tick handler
CountdownSecs == 60

\* Duration::from_secs(90) of the StartRestart handler
StartDisplaySecs == 90

\* Option::None of selected_file
None == "none"

\* get_yaml_files(): the .yaml files found at start-up
yaml_files == {"strategy.yaml"}

\* the empty HashMap
EmptyMap == [k \in {} |-> ""]

\* Config values (u16 second -> path) a well-formed file can hold
ConfigA == (0 :> "start.mp3") @@ (1 :> "rune.mp3")

ConfigB == (1 :> "stack.mp3")

Configs == {ConfigA, ConfigB}

\* What fs::read_to_string followed by serde_yaml::from_str can meet.
FileContents ==
    {[kind |-> "unreadable", audio |-> EmptyMap],
     [kind |-> "malformed", audio |-> EmptyMap]}
    \cup {[kind |-> "valid", audio |-> c] : c \in Configs}

\* config.audio.into_iter().map(|(k, v)| (Duration::from_secs(k.into()), v)).collect()
ToAudioMap(cfg) ==
    [d \in {from_secs(k) : k \in DOMAIN cfg} |-> cfg[as_secs(d)]]

\* every trigger point some configuration schedules
AllPoints == UNION {DOMAIN ToAudioMap(c) : c \in Configs}

\* ------------------------------------------------------------ sampled time

\* The clock is observed at the instants of SampleTimes: MaxCycles + 1
\* windows of WindowLen units, one countdown apart, so that a countdown
\* started in one window ends in the next.
WindowGap == from_secs(CountdownSecs)

SampleTimes ==
    {w * WindowGap + o : w \in 0..MaxCycles, o \in 0..WindowLen}

NoTick == -1

\* ------------------------------------------------------------------- state

VARIABLES
    state,            \* TimerApp.state : TimerState
    selected_file,    \* TimerApp.selected_file
    audio_map,        \* TimerApp.audio_map : Duration -> path
    current_display,  \* TimerApp.current_display
    triggered_audio,  \* TimerApp.triggered_audio
    clock,            \* the monotonic clock behind Instant::now()
    fs,               \* contents of each yaml file on disk
    tick,             \* the Tick(now) message in flight, or NoTick
    crashed,          \* the process panicked
    cues,             \* paths handed to play_audio by the last message
    playCount,        \* history: play_audio calls per trigger point since
                      \* the last StartRestart / LoadYaml
    ranFor,           \* history: real time spent in Running since the last
                      \* StartRestart
    firedBefore,      \* history: trigger points played before the last
                      \* StartRestart
    prevTick,         \* history: the Tick handled last, kept while no other
                      \* message was handled and a Tick with the same stamp
                      \* can still arrive
    shifted           \* the timer of a second run of the program that gets
                      \* the same messages at the same intervals and whose
                      \* clock reads clock + ClockShift

vars ==
    <<state, selected_file, audio_map, current_display, triggered_audio,
      clock, fs, tick, crashed, cues, playCount, ranFor, firedBefore,
      prevTick, shifted>>

\* TimerState
Idle == [tag |-> "Idle"]

CountingDown(start_time) == [tag |-> "CountingDown", start_time |-> start_time]

Running(base_time, last_start) ==
    [tag |-> "Running", base_time |-> base_time, last_start |-> last_start]

Paused(elapsed) == [tag |-> "Paused", elapsed |-> elapsed]

NoPrev == [now |-> NoTick, tag |-> "none"]

\* the fields of TimerApp the messages compute from the clock, with the cues
\* the last message played
Timer ==
    [state |-> state, current_display |-> current_display,
     triggered_audio |-> triggered_audio, cues |-> cues]

ZeroCount == [p \in AllPoints |-> 0]

\* Instant::elapsed(): Instant::now() - self
elapsed_since(instant, now_instant) == duration_since(now_instant, instant)

\* TimerApp::default(), with whatever the directory holds at start-up
Init ==
    /\ state = Idle
    /\ selected_file = None
    /\ audio_map = EmptyMap
    /\ current_display = 0
    /\ triggered_audio = {}
    /\ clock = 0
    /\ fs \in [yaml_files -> FileContents]
    /\ tick = NoTick
    /\ crashed = FALSE
    /\ cues = <<>>
    /\ playCount = ZeroCount
    /\ ranFor = 0
    /\ firedBefore = {}
    /\ prevTick = NoPrev
    /\ shifted = [state |-> Idle, current_display |-> 0,
                  triggered_audio |-> {}, cues |-> <<>>]

\* ------------------------------------------------------- pieces of update

\* a clear that was forgotten
Kept(collection) == collection

\* HashMap::clear / HashSet::clear
Cleared(collection) == {}

\* a reload that empties the map when the file cannot be read
ReloadOrEmpty(map, selected) ==
    IF selected = None
    THEN [panic |-> FALSE, map |-> map]
    ELSE IF fs[selected].kind = "unreadable"
         THEN [panic |-> FALSE, map |-> EmptyMap]
         ELSE IF fs[selected].kind = "malformed"
              THEN [panic |-> TRUE, map |-> map]
              ELSE [panic |-> FALSE, map |-> ToAudioMap(fs[selected].audio)]

\* StartRestart: the reload of the selected file; `panic` is the unwrap of
\* a parse error
Reload(map, selected) ==
    IF selected = None \/ fs[selected].kind = "unreadable"
    THEN [panic |-> FALSE, map |-> map]
    ELSE IF fs[selected].kind = "malformed"
         THEN [panic |-> TRUE, map |-> map]
         ELSE [panic |-> FALSE, map |-> ToAudioMap(fs[selected].audio)]

\* LoadYaml: audio_map.clear(), then the map of the file if it reads and
\* parses
Loaded(map, file) ==
    IF fs[file].kind = "valid"
    THEN ToAudioMap(fs[file].audio)
    ELSE [k \in Cleared(DOMAIN map) |-> map[k]]

\* elapsed time that forgets what ran before the last resume
elapsed_since_resume(base_time, last_start, now_instant) ==
    elapsed_since(last_start, now_instant)

\* PauseResume and Tick in Running: *base_time + last_start.elapsed()
elapsed(base_time, last_start, now_instant) ==
    base_time + elapsed_since(last_start, now_instant)

\* a countdown that never reaches zero
remaining_held(now, start_time) ==
    saturating_sub(from_secs(CountdownSecs), duration_since(now, start_time)) + 1

\* a countdown that forgets its anchor and measures from the clock's origin
remaining_from_origin(now, start_time) ==
    saturating_sub(from_secs(CountdownSecs), now)

\* a countdown from the 90 seconds StartRestart displays
remaining_of_displayed(now, start_time) ==
    saturating_sub(from_secs(StartDisplaySecs), duration_since(now, start_time))

\* Tick in CountingDown
remaining(now, start_time) ==
    saturating_sub(from_secs(CountdownSecs), duration_since(now, start_time))

\* check_audio_triggers: Duration::from_secs(current_display.as_secs())
trigger_point(display) == from_secs(as_secs(display))

\* level-triggered firing: no look at what already fired
should_play_on_level(point, map, triggered) == point \in DOMAIN map

\* check_audio_triggers: the condition under which the cue is played
should_play(point, map, triggered) ==
    point \in DOMAIN map /\ point \notin triggered

\* a call that never records what it played
triggered_not_recorded(point, map, triggered) == triggered

\* a call that records the played point in place of the set
triggered_replaced(point, map, triggered) ==
    IF should_play(point, map, triggered) THEN {point} ELSE triggered

\* check_audio_triggers: triggered_audio after the call
triggered_after(point, map, triggered) ==
    IF should_play(point, map, triggered) THEN triggered \cup {point}
    ELSE triggered

\* a subscription that only stops in Idle
subscription_unless_idle == state.tag /= "Idle"

\* subscription: whether ticks are requested
subscription == state.tag \in {"CountingDown", "Running"}

\* ------------------------------------------------- update, on one timer

\* check_audio_triggers: the cue is played and its point recorded
check_audio_triggers(timer, map) ==
    LET p == trigger_point(timer.current_display) IN
      [timer EXCEPT
         !.cues = IF should_play(p, map, timer.triggered_audio)
                  THEN <<map[p]>> ELSE <<>>,
         !.triggered_audio = triggered_after(p, map, @)]

\* Message::StartRestart, the reset
on_start(timer, now_instant) ==
    [state |-> CountingDown(now_instant),
     current_display |-> from_secs(StartDisplaySecs),
     triggered_audio |-> Cleared(timer.triggered_audio),
     cues |-> <<>>]

\* a PauseResume that starts the timer from CountingDown
on_pause_starting(timer, now_instant) ==
    CASE timer.state.tag = "Running" ->
           LET e == elapsed(timer.state.base_time, timer.state.last_start,
                            now_instant)
           IN [timer EXCEPT !.state = Paused(e), !.current_display = e,
                            !.cues = <<>>]
      [] timer.state.tag = "Paused" ->
           [timer EXCEPT !.state = Running(timer.state.elapsed, now_instant),
                         !.cues = <<>>]
      [] timer.state.tag = "CountingDown" ->
           [timer EXCEPT !.state = Running(0, now_instant), !.cues = <<>>]
      [] OTHER -> [timer EXCEPT !.cues = <<>>]

\* a PauseResume that reverts to Idle from the other phases
on_pause_reverting(timer, now_instant) ==
    CASE timer.state.tag = "Running" ->
           LET e == elapsed(timer.state.base_time, timer.state.last_start,
                            now_instant)
           IN [timer EXCEPT !.state = Paused(e), !.current_display = e,
                            !.cues = <<>>]
      [] timer.state.tag = "Paused" ->
           [timer EXCEPT !.state = Running(timer.state.elapsed, now_instant),
                         !.cues = <<>>]
      [] OTHER -> [timer EXCEPT !.state = Idle, !.cues = <<>>]

\* Message::PauseResume
on_pause(timer, now_instant) ==
    CASE timer.state.tag = "Running" ->
           LET e == elapsed(timer.state.base_time, timer.state.last_start,
                            now_instant)
           IN [timer EXCEPT !.state = Paused(e), !.current_display = e,
                            !.cues = <<>>]
      [] timer.state.tag = "Paused" ->
           [timer EXCEPT !.state = Running(timer.state.elapsed, now_instant),
                         !.cues = <<>>]
      [] OTHER -> [timer EXCEPT !.cues = <<>>]

\* Message::LoadYaml, the fired set
on_load(timer) ==
    [timer EXCEPT !.triggered_audio = Cleared(@), !.cues = <<>>]

\* a Tick that calls check_audio_triggers in every phase
tick_checks_always(tag) == TRUE

\* Message::Tick: the phases whose arm calls check_audio_triggers
tick_checks(tag) == tag = "Running"

\* Message::Tick(now), handled when the clock reads now_instant
on_tick(timer, map, now, now_instant) ==
    LET shown ==
          CASE timer.state.tag = "CountingDown" ->
                 LET r == remaining(now, timer.state.start_time) IN
                   [timer EXCEPT
                      !.current_display = r,
                      !.state = IF r = 0 THEN Running(0, now_instant) ELSE @,
                      !.cues = <<>>]
            [] timer.state.tag = "Running" ->
                 [timer EXCEPT
                    !.current_display =
                        elapsed(timer.state.base_time, timer.state.last_start,
                                now_instant),
                    !.cues = <<>>]
            [] timer.state.tag = "Paused" ->
                 [timer EXCEPT !.current_display = timer.state.elapsed,
                               !.cues = <<>>]
            [] OTHER -> [timer EXCEPT !.cues = <<>>]
    IN IF tick_checks(timer.state.tag)
       THEN check_audio_triggers(shown, map)
       ELSE shown

\* the timer fields after a message
Becomes(timer) ==
    /\ state' = timer.state
    /\ current_display' = timer.current_display
    /\ triggered_audio' = timer.triggered_audio
    /\ cues' = timer.cues

\* ---------------------------------------------------------------- messages

StartRestart ==
    /\ ~crashed
    /\ LET r == Reload(audio_map, selected_file) IN
        /\ Becomes(on_start(Timer, clock))
        /\ audio_map' = r.map
        /\ crashed' = r.panic
    /\ shifted' = on_start(shifted, clock + ClockShift)
    /\ firedBefore' = firedBefore \cup {p \in AllPoints : playCount[p] > 0}
    /\ playCount' = ZeroCount
    /\ ranFor' = 0
    /\ prevTick' = NoPrev
    /\ UNCHANGED <<selected_file, clock, fs, tick>>

PauseResume ==
    /\ ~crashed
    /\ Becomes(on_pause(Timer, clock))
    /\ shifted' = on_pause(shifted, clock + ClockShift)
    /\ prevTick' = NoPrev
    /\ UNCHANGED <<selected_file, audio_map, clock, fs, tick,
                   crashed, playCount, ranFor, firedBefore>>

LoadYaml(file) ==
    /\ ~crashed
    /\ selected_file' = file
    /\ audio_map' = Loaded(audio_map, file)
    /\ Becomes(on_load(Timer))
    /\ shifted' = on_load(shifted)
    /\ playCount' = ZeroCount
    /\ prevTick' = NoPrev
    /\ UNCHANGED <<clock, fs, tick, crashed, ranFor, firedBefore>>

Tick ==
    /\ ~crashed
    /\ tick /= NoTick
    /\ LET r == on_tick(Timer, audio_map, tick, clock) IN
        /\ Becomes(r)
        /\ playCount' =
             IF r.cues /= <<>>
             THEN [playCount EXCEPT ![trigger_point(r.current_display)] = @ + 1]
             ELSE playCount
    /\ shifted' = on_tick(shifted, audio_map, tick + ClockShift,
                          clock + ClockShift)
    /\ prevTick' = [now |-> tick, tag |-> state.tag]
    /\ tick' = NoTick
    /\ UNCHANGED <<selected_file, audio_map, clock, fs, crashed, ranFor,
                   firedBefore>>

\* -------------------------------------------------------------- environment

\* time::every(..).map(Message::Tick): the subscription stamps a tick with
\* the current instant; update handles it then or later
Emit ==
    /\ ~crashed
    /\ subscription
    /\ tick = NoTick
    /\ tick' = clock
    /\ UNCHANGED <<state, selected_file, audio_map, current_display,
                   triggered_audio, clock, fs, crashed, cues, playCount,
                   ranFor, firedBefore, prevTick, shifted>>

\* real time passes
Advance(t) ==
    /\ ~crashed
    /\ t > clock
    /\ tick /= NoTick => t - tick <= MaxLag
    /\ clock' = t
    /\ ranFor' = IF state.tag = "Running" THEN ranFor + (t - clock) ELSE ranFor
    /\ prevTick' = IF tick = prevTick.now THEN prevTick ELSE NoPrev
    /\ UNCHANGED <<state, selected_file, audio_map, current_display,
                   triggered_audio, fs, tick, crashed, cues, playCount,
                   firedBefore, shifted>>

\* somebody edits, removes or restores a yaml file
WriteFile(file, contents) ==
    /\ ~crashed
    /\ fs[file] /= contents
    /\ fs' = [fs EXCEPT ![file] = contents]
    /\ UNCHANGED <<state, selected_file, audio_map, current_display,
                   triggered_audio, clock, tick, crashed, cues, playCount,
                   ranFor, firedBefore, prevTick, shifted>>

Next ==
    \/ StartRestart
    \/ PauseResume
    \/ \E file \in yaml_files : LoadYaml(file)
    \/ Tick
    \/ Emit
    \/ \E t \in SampleTimes : Advance(t)
    \/ \E file \in yaml_files, contents \in FileContents : WriteFile(file, contents)

Spec == Init /\ [][Next]_vars

\* ------------------------------------------------------------ timely ticks

\* In Running, the instant of the last Tick handled or, when none was
\* handled since, the instant Running was entered: the display was computed
\* at that instant as base_time + (instant - last_start).
LastEvent == state.last_start + (current_display - state.base_time)

\* real time passes, and in Running less than one second passes without a
\* Tick being handled
AdvanceTimely(t) ==
    /\ state.tag = "Running" => t - LastEvent < from_secs(1)
    /\ Advance(t)

\* a file is loaded before the timer runs
LoadYamlBeforeRun(file) ==
    /\ state.tag \notin {"Running", "Paused"}
    /\ LoadYaml(file)

NextTimely ==
    \/ StartRestart
    \/ PauseResume
    \/ \E file \in yaml_files : LoadYamlBeforeRun(file)
    \/ Tick
    \/ Emit
    \/ \E t \in SampleTimes : AdvanceTimely(t)
    \/ \E file \in yaml_files, contents \in FileContents : WriteFile(file, contents)

SpecTimely == Init /\ [][NextTimely]_vars

\* -------------------------------------------------------- fair tick source

\* time::every keeps stamping ticks while they are requested, the runtime
\* hands every stamped tick to update, and real time goes on: it passes
\* whenever no tick is waiting, however often one is.
SpecLive ==
    /\ Init /\ [][Next]_vars
    /\ WF_vars(Emit)
    /\ WF_vars(Tick)
    /\ SF_vars(\E t \in SampleTimes : Advance(t))

TypeOK ==
    /\ state.tag \in {"Idle", "CountingDown", "Running", "Paused"}
    /\ clock \in SampleTimes

\* ------------------------------------------------------------------ claims

LoadYamlStep == \E file \in yaml_files : LoadYaml(file)

TickHandled == prevTick.now /= NoTick

\* C1: between two clearings of the fired set (StartRestart / LoadYaml), the
\* cue of each scheduled second offset is played at most once, whatever the
\* ticks and pauses in between.
C1_NoDoubleFire == \A p \in AllPoints : playCount[p] <= 1

\* a cue was played once and ticks went on past its whole second
C1_Witness ==
    /\ state.tag = "Running"
    /\ TickHandled
    /\ \E p \in AllPoints :
        /\ playCount[p] = 1
        /\ current_display >= p + from_secs(1)

\* C2: a LoadYaml whose file is unreadable or does not parse leaves the
\* trigger map as it was.
C2_FailedLoadKeepsMap ==
    [][\A file \in yaml_files :
         LoadYaml(file) /\ fs[file].kind /= "valid" => audio_map' = audio_map]_vars

\* C3: StartRestart always succeeds: afterwards the phase is CountingDown
\* anchored at the current time, the fired set is empty and the process has
\* not died.
C3_StartRestartAlwaysSucceeds ==
    [][StartRestart =>
         /\ state' = CountingDown(clock)
         /\ triggered_audio' = {}
         /\ ~crashed']_vars

\* C4: pausing freezes the display at base + (t - last_start); while Paused
\* the display and the frozen value equal the real time spent Running, and a
\* tick after resuming shows the frozen value plus the time run since: time
\* spent paused is never counted.
C4_PausePreservesElapsed ==
    /\ [](state.tag = "Paused" =>
            state.elapsed = ranFor /\ current_display = ranFor)
    /\ [][/\ state.tag = "Running" /\ PauseResume =>
              /\ state' = Paused(state.base_time + (clock - state.last_start))
              /\ current_display' = state.base_time + (clock - state.last_start)
          /\ state.tag = "Paused" /\ PauseResume =>
              state' = Running(state.elapsed, clock)
          /\ state.tag = "Running" /\ Tick => current_display' = ranFor]_vars

\* resumed after a pause, ran on and ticked: frozen + d is displayed
C4_Witness ==
    /\ state.tag = "Running"
    /\ state.base_time > 0
    /\ clock > state.last_start
    /\ TickHandled
    /\ current_display = state.base_time + (clock - state.last_start)

\* C5: in Running, a tick whose displayed time has floor s, s scheduled,
\* plays the cue of s exactly when no earlier tick since the last clearing
\* played it; a tick at an unscheduled second plays nothing.
C5_EdgeTriggered ==
    [][state.tag = "Running" /\ Tick =>
         LET p == from_secs(current_display' \div TicksPerSec) IN
           IF p \in DOMAIN audio_map
           THEN /\ playCount[p] = 0 => cues' = <<audio_map[p]>>
                /\ playCount[p] > 0 => cues' = <<>>
           ELSE cues' = <<>>]_vars

\* a later tick inside the second whose cue was played: nothing is played
C5_Witness ==
    /\ state.tag = "Running"
    /\ TickHandled
    /\ prevTick.tag = "Running"
    /\ cues = <<>>
    /\ \E p \in DOMAIN audio_map :
        /\ playCount[p] = 1
        /\ current_display > p
        /\ current_display < p + from_secs(1)

\* C6: a cue played before a StartRestart is played again in the new cycle,
\* on the first tick that displays its second.
C6_RestartClearsHistory ==
    [][state.tag = "Running" /\ Tick =>
         LET p == from_secs(current_display' \div TicksPerSec) IN
           p \in DOMAIN audio_map /\ p \in firedBefore /\ playCount[p] = 0
             => cues' = <<audio_map[p]>> /\ p \in triggered_audio']_vars

\* the cue of a point played before the restart was played again after it
C6_Witness ==
    /\ state.tag = "Running"
    /\ cues /= <<>>
    /\ \E p \in firedBefore : playCount[p] = 1 /\ cues = <<audio_map[p]>>

\* C7: a Tick(now) in CountingDown(anchor) moves to Running with base 0 and
\* displays zero exactly when now - anchor >= 60 s; an earlier tick stays in
\* CountingDown.
C7_ZeroCrossing ==
    [][state.tag = "CountingDown" /\ Tick =>
         IF tick - state.start_time >= 60 * TicksPerSec
         THEN /\ state'.tag = "Running"
              /\ state'.base_time = 0
              /\ current_display' = 0
         ELSE /\ state' = state
              /\ current_display' > 0]_vars

\* the zero-crossing tick was just handled
C7_Witness ==
    /\ state.tag = "Running"
    /\ state.base_time = 0
    /\ prevTick.tag = "CountingDown"
    /\ current_display = 0

\* C8: handling Tick(now) twice with the same now in the same phase displays
\* the same duration both times.
C8_TickIdempotent ==
    [][prevTick.now = tick /\ prevTick.tag = state.tag /\ Tick =>
         current_display' = current_display]_vars

\* C9: StartRestart and LoadYaml leave the fired set empty, nothing else
\* removes an element from it, PauseResume leaves it as it is and a Tick adds
\* at most the current second offset.  (Each step rule is written in its
\* contrapositive form: a step whose fired set is not as the rule says is
\* not a step of that message.)
C9_FiredSetFrame ==
    [][/\ triggered_audio' /= {} => ~(StartRestart \/ LoadYamlStep)
       /\ ~(triggered_audio \subseteq triggered_audio') =>
            StartRestart \/ LoadYamlStep
       /\ triggered_audio' /= triggered_audio => ~PauseResume
       /\ ~(triggered_audio' \ triggered_audio
              \subseteq {from_secs(current_display' \div TicksPerSec)}) => ~Tick]_vars

\* a second tick added its offset to a fired set that kept the first one
C9_Witness ==
    /\ state.tag = "Paused"
    /\ Cardinality(triggered_audio) = 2

\* C10 as stated: the trigger map changes only when a LoadYaml is handled.
C10_MapChangesOnlyOnLoad ==
    [][audio_map' /= audio_map => LoadYamlStep]_vars

\* C10 amended: the trigger map changes only when a LoadYaml or a
\* StartRestart is handled; StartRestart replaces it by the contents of the
\* selected file when that file reads and parses and leaves it as it was
\* otherwise; PauseResume and Tick leave it as it was.
C10_MapChangesOnLoadOrRestart ==
    /\ [][audio_map' /= audio_map => LoadYamlStep \/ StartRestart]_vars
    /\ [][StartRestart =>
            audio_map' = IF /\ selected_file /= None
                            /\ fs[selected_file].kind = "valid"
                         THEN ToAudioMap(fs[selected_file].audio)
                         ELSE audio_map]_vars

\* the file changed since the load; a tick and a pause kept the loaded map
C10_Witness ==
    /\ state.tag = "Paused"
    /\ selected_file /= None
    /\ audio_map /= EmptyMap
    /\ fs[selected_file].kind = "unreadable"
    /\ ranFor > 0

\* the accumulated elapsed value: base_time of Running, the frozen value of
\* Paused; nothing is accumulated in Idle and CountingDown
Accumulated(st) ==
    CASE st.tag = "Running" -> st.base_time
      [] st.tag = "Paused" -> st.elapsed
      [] OTHER -> 0

\* a timer whose instants are moved k units later
ShiftedBy(timer, k) ==
    [timer EXCEPT
       !.state =
          CASE timer.state.tag = "CountingDown" ->
                 CountingDown(timer.state.start_time + k)
            [] timer.state.tag = "Running" ->
                 Running(timer.state.base_time, timer.state.last_start + k)
            [] OTHER -> timer.state]

\* the tick in flight is stamped before the stored anchor / last_start, or
\* before the tick handled last
StaleTick ==
    \/ state.tag = "CountingDown" /\ tick < state.start_time
    \/ state.tag = "Running" /\ tick < state.last_start
    \/ TickHandled /\ tick < prevTick.now

\* C11: a Tick stamped earlier than the anchor, last_start or the last tick
\* is a no-op: phase, displayed duration and fired set stay as they are, no
\* cue is played and the process does not die.
C11_ClockViolationNoOp ==
    [][tick /= NoTick /\ StaleTick /\ Tick =>
         /\ state' = state
         /\ current_display' = current_display
         /\ triggered_audio' = triggered_audio
         /\ cues' = <<>>
         /\ ~crashed']_vars

\* C12: the accumulated elapsed value decreases only in a StartRestart step.
C12_ElapsedMonotone ==
    [][Accumulated(state') < Accumulated(state) => StartRestart]_vars

\* resumed from an accumulated value and ran on: the base kept what was
\* accumulated before the pause
C12_Witness ==
    /\ state.tag = "Running"
    /\ state.base_time > 0
    /\ ranFor > state.base_time
    /\ tick = NoTick

\* C13: ticks are requested exactly in CountingDown and Running, and a tick
\* is stamped only in those phases.
C13_TicksWhenCounting ==
    /\ [](subscription <=> state.tag \in {"CountingDown", "Running"})
    /\ [][tick = NoTick /\ tick' /= NoTick =>
            state.tag \in {"CountingDown", "Running"}]_vars

\* paused after a run: no ticks are requested and none is in flight
C13_Witness ==
    /\ state.tag = "Paused"
    /\ ~subscription
    /\ tick = NoTick
    /\ ranFor > 0

\* C14: a second run of the program that gets the same messages at the same
\* intervals, with every clock reading ClockShift later, is in the same
\* phase with the same displayed duration, the same fired set and the same
\* cues played; its stored instants are ClockShift later.
C14_ShiftInvariant == shifted = ShiftedBy(Timer, ClockShift)

\* both runs resumed after a pause and played a cue
C14_Witness ==
    /\ state.tag = "Running"
    /\ state.base_time > 0
    /\ shifted.state.tag = "Running"
    /\ shifted.state.last_start = state.last_start + ClockShift
    /\ shifted.triggered_audio /= {}
    /\ TickHandled

\* C15: a PauseResume handled in Idle or CountingDown leaves the phase with
\* its anchor, the displayed duration, the trigger map and the fired set as
\* they are.
C15_PauseNoOpOutsideRun ==
    [][state.tag \in {"Idle", "CountingDown"} /\ PauseResume =>
         UNCHANGED <<state, current_display, audio_map, triggered_audio>>]_vars

\* a PauseResume was handled during the countdown: the display is the one a
\* Tick stamped at this instant computed, no file was ever selected, and the
\* record of that Tick was dropped with the clock standing still, which only
\* a PauseResume does without setting the display back to its start value
C15_Witness ==
    /\ state.tag = "CountingDown"
    /\ selected_file = None
    /\ clock > state.start_time
    /\ current_display = from_secs(CountdownSecs) - (clock - state.start_time)
    /\ prevTick = NoPrev

\* C16: a cue is played only by a Tick handled in Running: StartRestart,
\* PauseResume and LoadYaml play nothing, and a Tick handled in CountingDown,
\* Paused or Idle plays nothing.
C16_CuesOnlyOnRunningTick ==
    [][/\ cues' /= <<>> => ~(StartRestart \/ PauseResume \/ LoadYamlStep)
       /\ state.tag /= "Running" /\ Tick => cues' = <<>>
       /\ playCount' /= playCount /\ playCount' /= ZeroCount =>
            state.tag = "Running" /\ Tick]_vars

\* a Tick of the countdown displayed a remaining second that is scheduled
\* and nothing was played
C16_Witness ==
    /\ state.tag = "CountingDown"
    /\ TickHandled
    /\ prevTick.tag = "CountingDown"
    /\ trigger_point(current_display) \in DOMAIN audio_map
    /\ cues = <<>>
    /\ playCount = ZeroCount

\* C17: with a Tick handled less than a second after the previous one or
\* after entering Running, and no LoadYaml while the timer runs, every
\* scheduled offset is in the fired set once the displayed elapsed time has
\* reached the offset plus one second.
C17_NoCueSkipped ==
    state.tag \in {"Running", "Paused"} =>
        \A p \in DOMAIN audio_map :
            current_display >= p + from_secs(1) => p \in triggered_audio

\* C18: in CountingDown the displayed duration is at most the countdown
\* length the ticks count down from.
C18_CountdownDisplayBounded ==
    state.tag = "CountingDown" => current_display <= from_secs(CountdownSecs)

\* C19: once a StartRestart was handled, the phase is never Idle again.
C19_IdleOnlyInitially ==
    /\ [][StartRestart => state'.tag /= "Idle"]_vars
    /\ [][state.tag /= "Idle" => state'.tag /= "Idle"]_vars

\* PauseResume and ticks were handled in every phase after the start, and a
\* restart: the timer is paused, not idle
C19_Witness ==
    /\ state.tag = "Paused"
    /\ firedBefore /= {}

\* the anchors whose countdown ends within the sampled time
Completable ==
    {a \in SampleTimes : a + from_secs(CountdownSecs) <= MaxCycles * WindowGap}

\* C20: with a fair tick source, a countdown whose end lies within the
\* sampled time reaches Running unless a StartRestart ends the process or
\* sets an anchor whose countdown ends beyond the sampled time; and
\* CountingDown is left only by a Tick, into Running.
C20_CountdownCompletes ==
    /\ (state.tag = "CountingDown" /\ state.start_time \in Completable /\ ~crashed)
         ~> (\/ state.tag = "Running"
             \/ state.tag = "CountingDown" /\ state.start_time \notin Completable
             \/ crashed)
    /\ [][state.tag = "CountingDown" /\ state'.tag /= "CountingDown" =>
            Tick /\ state'.tag = "Running"]_vars

\* the countdown of a restart was completed by its zero-crossing Tick
C20_Witness ==
    /\ state.tag = "Running"
    /\ ranFor = 0
    /\ prevTick.tag = "CountingDown"
    /\ firedBefore /= {}

====
